---- MODULE Spec2Model ----
(***************************************************************************)
(* Model of publish_pipeline.py: run_pipeline and the print wrap cover      *)
(* generator generate_print_wrap_cover_a8, statement by statement.          *)
(*                                                                         *)
(* Lengths in millimetres are integers in units of 1/MmUnit mm, so that     *)
(* 0.0025 mm (the default paper thickness) is 25 units and one inch         *)
(* (25.4 mm) is 254000 units.  Conversions are computed exactly on these    *)
(* rationals with Python 3's round-half-to-even.  Text is a sequence of     *)
(* characters; "nl" is the newline character, "sp" the space.               *)
(***************************************************************************)
EXTENDS Integers, Sequences, FiniteSets, TLC

\* ---------- bounds of the model ----------
MaxTitleLen == 3

\* ---------- configuration defaults ----------
MmUnit == 10000
UnitsPerInch == 254000
DEFAULT_DPI == 300
AMAZON_LONG_SIDE_PX == 1600
A8_MM == <<520000, 740000>>
DEFAULT_BLEED_MM == 30000
DEFAULT_PAPER_THICKNESS_MM_PER_PAGE == 25

\* ---------- input domains ----------
DpiSet == {-300, 0, 72, DEFAULT_DPI}
PageCountSet == {-120, -10, 0, 120}
BleedSet == {0, DEFAULT_BLEED_MM}
ThicknessSet == {DEFAULT_PAPER_THICKNESS_MM_PER_PAGE, 1000}
Alphabet == {"A", "nl"}
AuthorSet == {<<>>, <<"Z">>}
ExtSet == {"md", "docx", "pdf"}
GlyphAspectSet == {1, 2}

RECURSIVE SeqsUpTo(_, _)
SeqsUpTo(S, n) ==
    IF n = 0 THEN {<<>>}
    ELSE LET shorter == SeqsUpTo(S, n - 1)
         IN shorter \cup {Append(s, c) : s \in {t \in shorter : Len(t) = n - 1}, c \in S}

TitleSet == SeqsUpTo(Alphabet, MaxTitleLen)

\* ---------- arithmetic helpers ----------
Max(a, b) == IF a >= b THEN a ELSE b
Min(a, b) == IF a <= b THEN a ELSE b

\* int(x) of Python: truncation toward zero of n/d, d > 0
TruncDiv(n, d) == IF n >= 0 THEN n \div d ELSE -((-n) \div d)

\* round(x) of Python 3 on n/d, d > 0: nearest integer, ties to even
RoundHalfEven(n, d) ==
    LET q == n \div d
        r == n - q * d
    IN IF 2 * r < d THEN q
       ELSE IF 2 * r > d THEN q + 1
       ELSE IF q % 2 = 0 THEN q ELSE q + 1

\* mm_to_px with the rounding replaced by truncation
mm_to_px_trunc(mm, dpi) == TruncDiv(mm * dpi, UnitsPerInch)

\* mm_to_px clamped to at least one pixel
mm_to_px_clamped(mm, dpi) == Max(1, RoundHalfEven(mm * dpi, UnitsPerInch))

mm_to_px(mm, dpi) == RoundHalfEven(mm * dpi, UnitsPerInch)

compute_spine_width_mm(page_count, thickness_per_page_mm) ==
    page_count * thickness_per_page_mm

\* full cover width in mm with the bleed counted on one side only
full_w_mm_one_bleed(width_mm, spine, bleed) == width_mm * 2 + spine + bleed

full_w_mm_of(width_mm, spine, bleed) == width_mm * 2 + spine + 2 * bleed

full_h_mm_of(height_mm, bleed) == height_mm + 2 * bleed

\* ---------- text helpers ----------
IsSpace(c) == c \in {"nl", "sp"}

RECURSIVE LStrip(_)
LStrip(s) == IF s # <<>> /\ IsSpace(Head(s)) THEN LStrip(Tail(s)) ELSE s

RECURSIVE RStrip(_)
RStrip(s) ==
    IF s # <<>> /\ IsSpace(s[Len(s)]) THEN RStrip(SubSeq(s, 1, Len(s) - 1)) ELSE s

\* str.strip()
Strip(s) == RStrip(LStrip(s))

\* str.split("\n"): always at least one (possibly empty) piece
RECURSIVE SplitNl(_)
SplitNl(s) ==
    IF \A i \in 1..Len(s) : s[i] # "nl" THEN <<s>>
    ELSE LET k == CHOOSE i \in 1..Len(s) : s[i] = "nl" /\ \A j \in 1..(i - 1) : s[j] # "nl"
         IN <<SubSeq(s, 1, k - 1)>> \o SplitNl(SubSeq(s, k + 1, Len(s)))

\* f"By {author}"
AuthorText(a) == <<"B", "y", "sp">> \o a

\* draw.textsize of the external font renderer: zero size for the empty
\* string, otherwise proportional to the font size
TextSize(text, size, aspect) ==
    IF text = <<>> THEN <<0, 0>> ELSE <<(Len(text) * size * aspect) \div 2, size>>

\* ---------- external commands ----------
RcSet == {0, 1}

\* run_cmd that never raises, whatever the exit status
RunCmdRaises_ignored(rc, check) == FALSE

\* run_cmd raises RuntimeError iff check is set and the exit status is non-zero
RunCmdRaises(rc, check) == check /\ rc # 0

\* ---------- state ----------
VARIABLES
    pc,            \* position of the process in run_pipeline / the cover generator
    stages,        \* pipeline stages entered so far, in order
    cmds,          \* external commands run so far: [cmd, rc, at]
    files,         \* files present in the output directory
    exit_status,   \* -1 while running, then the exit status of the process
    error,         \* exception that ended run_pipeline, "none" otherwise
    dpi, bleed_mm, thickness_per_page_mm, glyph_aspect,   \* args and font metrics
    title, author, page_count,                            \* loaded metadata
    ebook_size,    \* pixel size of the ebook cover
    spine_mm, full_w_mm, full_h_mm, full_w_px, full_h_px,
    bleed_px, page_w_px, page_h_px, spine_px,
    back_cover_x, spine_x, front_cover_x,
    img,           \* the print cover canvas [created, w, h]
    ops,           \* draw operations issued on the canvas, in order
    title_lines, line_idx, y_start,
    spine_img      \* the intermediate spine block and where its text ends up

procVars == <<pc, stages, cmds, files, exit_status, error>>
argVars == <<dpi, bleed_mm, thickness_per_page_mm, glyph_aspect>>
metaVars == <<title, author, page_count>>
dimVars == <<spine_mm, full_w_mm, full_h_mm, full_w_px, full_h_px>>
regionVars == <<bleed_px, page_w_px, page_h_px, spine_px, back_cover_x, spine_x, front_cover_x>>
textVars == <<title_lines, line_idx, y_start>>
vars == <<procVars, argVars, metaVars, ebook_size, dimVars, regionVars, img, ops,
          textVars, spine_img>>

StageOrder == <<"convert", "merge", "ebook_cover", "print_cover", "epub", "validate", "report">>

NoSpineImg == [created |-> FALSE, w |-> 0, h |-> 0, rot_w |-> 0, rot_h |-> 0,
               pasted |-> FALSE, visible |-> FALSE,
               x2lo |-> 0, x2hi |-> 0, y2lo |-> 0, y2hi |-> 0]

Init ==
    /\ pc = "convert"
    /\ stages = <<>>
    /\ cmds = <<>>
    /\ files = {}
    /\ exit_status = -1
    /\ error = "none"
    /\ dpi \in DpiSet
    /\ bleed_mm \in BleedSet
    /\ thickness_per_page_mm \in ThicknessSet
    /\ glyph_aspect \in GlyphAspectSet
    /\ title = <<>>
    /\ author = <<>>
    /\ page_count = 0
    /\ ebook_size = <<0, 0>>
    /\ spine_mm = 0 /\ full_w_mm = 0 /\ full_h_mm = 0 /\ full_w_px = 0 /\ full_h_px = 0
    /\ bleed_px = 0 /\ page_w_px = 0 /\ page_h_px = 0 /\ spine_px = 0
    /\ back_cover_x = 0 /\ spine_x = 0 /\ front_cover_x = 0
    /\ img = [created |-> FALSE, w |-> 0, h |-> 0]
    /\ ops = <<>>
    /\ title_lines = <<>>
    /\ line_idx = 0
    /\ y_start = 0
    /\ spine_img = NoSpineImg

\* an exception propagates out of run_pipeline; __main__ prints it and exits 2
Raise(e) ==
    /\ pc' = "exited"
    /\ error' = e
    /\ exit_status' = 2

Goto(l) ==
    /\ pc' = l
    /\ UNCHANGED <<error, exit_status>>

\* run_cmd(cmd): record the command and raise or continue at l
RunCmd(name, rc, l) ==
    /\ cmds' = Append(cmds, [cmd |-> name, rc |-> rc, at |-> Len(stages')])
    /\ IF RunCmdRaises(rc, TRUE) THEN Raise("RuntimeError") ELSE Goto(l)

renderVars == <<ebook_size, dimVars, regionVars, img, ops, textVars, spine_img>>

\* convert_to_markdown_if_needed
Convert ==
    /\ pc = "convert"
    /\ stages' = Append(stages, "convert")
    /\ \E ext \in ExtSet :
         \/ /\ ext = "md"
            /\ Goto("merge")
            /\ UNCHANGED cmds
         \/ /\ ext = "docx"
            /\ \E rc \in RcSet : RunCmd("pandoc_markdown", rc, "merge")
         \/ /\ ext \notin {"md", "docx"}
            /\ Raise("ValueError")
            /\ UNCHANGED cmds
    /\ UNCHANGED <<files, argVars, metaVars, renderVars>>

\* merge_markdown: writes full_book.md in the temporary working directory
Merge ==
    /\ pc = "merge"
    /\ stages' = Append(stages, "merge")
    /\ Goto("metadata")
    /\ UNCHANGED <<cmds, files, argVars, metaVars, renderVars>>

\* load metadata: title, author, page_count
LoadMetadata ==
    /\ pc = "metadata"
    /\ title' \in TitleSet
    /\ author' \in AuthorSet
    /\ page_count' \in PageCountSet
    /\ Goto("ebook_cover")
    /\ UNCHANGED <<stages, cmds, files, argVars, renderVars>>

\* generate_ebook_cover: A8 aspect ratio, long side AMAZON_LONG_SIDE_PX
EbookSize(aspect_w, aspect_h, long_side_px) ==
    IF aspect_h >= aspect_w
    THEN <<RoundHalfEven(long_side_px * aspect_w, aspect_h), long_side_px>>
    ELSE <<long_side_px, RoundHalfEven(long_side_px * aspect_h, aspect_w)>>

GenerateEbookCover ==
    /\ pc = "ebook_cover"
    /\ stages' = Append(stages, "ebook_cover")
    /\ ebook_size' = EbookSize(A8_MM[1] \div MmUnit, A8_MM[2] \div MmUnit, AMAZON_LONG_SIDE_PX)
    /\ files' = files \cup {"cover_ebook.jpg"}
    /\ Goto("pc_compute")
    /\ UNCHANGED <<cmds, argVars, metaVars, dimVars, regionVars, img, ops, textVars, spine_img>>

\* ---------- generate_print_wrap_cover_a8 ----------
width_mm == A8_MM[1]
height_mm == A8_MM[2]

\* one entry of the draw log; for a text, (x0, y0) is twice the x position and
\* the y position of the text, (x1, y1) its measured width and height
DrawOp(kind, name, text, x0, y0, x1, y1) ==
    [kind |-> kind, name |-> name, text |-> text, x0 |-> x0, y0 |-> y0, x1 |-> x1, y1 |-> y1]

\* spine width, full cover dimensions in mm and in pixels
ComputeDims ==
    /\ pc = "pc_compute"
    /\ stages' = Append(stages, "print_cover")
    /\ spine_mm' = compute_spine_width_mm(page_count, thickness_per_page_mm)
    /\ full_w_mm' = full_w_mm_of(width_mm, spine_mm', bleed_mm)
    /\ full_h_mm' = full_h_mm_of(height_mm, bleed_mm)
    /\ full_w_px' = mm_to_px(full_w_mm', dpi)
    /\ full_h_px' = mm_to_px(full_h_mm', dpi)
    /\ Goto("pc_canvas")
    /\ UNCHANGED <<cmds, files, argVars, metaVars, ebook_size, regionVars, img, ops,
                   textVars, spine_img>>

\* Image.new("RGB", (full_w_px, full_h_px)): a negative size raises ValueError;
\* the new canvas is painted with the background colour
CreateCanvas ==
    /\ pc = "pc_canvas"
    /\ IF full_w_px < 0 \/ full_h_px < 0
       THEN /\ Raise("ValueError")
            /\ UNCHANGED <<img, ops>>
       ELSE /\ img' = [created |-> TRUE, w |-> full_w_px, h |-> full_h_px]
            /\ ops' = Append(ops, DrawOp("background", "canvas", <<>>, 0, 0,
                                         full_w_px - 1, full_h_px - 1))
            /\ Goto("pc_regions")
    /\ UNCHANGED <<stages, cmds, files, argVars, metaVars, ebook_size, dimVars, regionVars,
                   textVars, spine_img>>

\* pixel sizes of bleed, page and spine; x positions of the three panels
CalcRegions ==
    /\ pc = "pc_regions"
    /\ bleed_px' = mm_to_px(bleed_mm, dpi)
    /\ page_w_px' = mm_to_px(width_mm, dpi)
    /\ page_h_px' = mm_to_px(height_mm, dpi)
    /\ spine_px' = mm_to_px(spine_mm, dpi)
    /\ back_cover_x' = 0 + bleed_px'
    /\ spine_x' = back_cover_x' + page_w_px'
    /\ front_cover_x' = spine_x' + spine_px'
    /\ Goto("pc_fill_back")
    /\ UNCHANGED <<stages, cmds, files, argVars, metaVars, ebook_size, dimVars, img, ops,
                   textVars, spine_img>>

\* draw.rectangle([x0, y0, x1, y1], fill): both corner points belong to the
\* rectangle.  With x1 < x0 the library either rejects the box (ValueError)
\* or paints the box with the coordinates swapped, depending on its version.
Rectangle(name, x0, y0, x1, y1, next) ==
    \/ /\ x1 < x0 \/ y1 < y0
       /\ Raise("ValueError")
       /\ UNCHANGED ops
    \/ /\ ops' = Append(ops, DrawOp("fill", name, <<>>, Min(x0, x1), Min(y0, y1),
                                    Max(x0, x1), Max(y0, y1)))
       /\ Goto(next)

FillBack ==
    /\ pc = "pc_fill_back"
    /\ Rectangle("back", back_cover_x, bleed_px, back_cover_x + page_w_px,
                 bleed_px + page_h_px, "pc_fill_spine")
    /\ UNCHANGED <<stages, cmds, files, argVars, metaVars, ebook_size, dimVars, regionVars,
                   img, textVars, spine_img>>

FillSpine ==
    /\ pc = "pc_fill_spine"
    /\ Rectangle("spine", spine_x, bleed_px, spine_x + spine_px,
                 bleed_px + page_h_px, "pc_fill_front")
    /\ UNCHANGED <<stages, cmds, files, argVars, metaVars, ebook_size, dimVars, regionVars,
                   img, textVars, spine_img>>

FillFront ==
    /\ pc = "pc_fill_front"
    /\ Rectangle("front", front_cover_x, bleed_px, front_cover_x + page_w_px,
                 bleed_px + page_h_px, "pc_title")
    /\ UNCHANGED <<stages, cmds, files, argVars, metaVars, ebook_size, dimVars, regionVars,
                   img, textVars, spine_img>>

\* font sizes
TitleFontSize == Max(12, TruncDiv(page_h_px * 12, 100))
AuthorFontSize == Max(10, TruncDiv(page_h_px * 7, 100))
SpineFontSize == Max(8, TruncDiv(spine_px * 7, 10))

\* title.strip().split("\n") and the first baseline
StartTitle ==
    /\ pc = "pc_title"
    /\ title_lines' = SplitNl(Strip(title))
    /\ y_start' = bleed_px + TruncDiv(page_h_px * 18, 100)
    /\ line_idx' = 1
    /\ Goto("pc_title_line")
    /\ UNCHANGED <<stages, cmds, files, argVars, metaVars, ebook_size, dimVars, regionVars,
                   img, ops, spine_img>>

\* one iteration of the loop over title_lines
DrawTitleLine ==
    /\ pc = "pc_title_line"
    /\ line_idx <= Len(title_lines)
    /\ LET line == title_lines[line_idx]
           wh == TextSize(line, TitleFontSize, glyph_aspect)
       IN /\ ops' = Append(ops, DrawOp("text", "title", line,
                                       2 * front_cover_x + page_w_px - wh[1], y_start,
                                       wh[1], wh[2]))
          /\ y_start' = y_start + wh[2] + 6
    /\ line_idx' = line_idx + 1
    /\ IF line_idx = Len(title_lines) THEN Goto("pc_author") ELSE Goto("pc_title_line")
    /\ UNCHANGED <<stages, cmds, files, argVars, metaVars, ebook_size, dimVars, regionVars,
                   img, title_lines, spine_img>>

\* author line followed by a repaint of the front cover fill
DrawAuthor_repaint ==
    /\ pc = "pc_author"
    /\ LET author_text == AuthorText(author)
           wh == TextSize(author_text, AuthorFontSize, glyph_aspect)
       IN ops' = ops \o <<DrawOp("text", "author", author_text,
                                 2 * front_cover_x + page_w_px - wh[1],
                                 bleed_px + page_h_px - TruncDiv(page_h_px * 12, 100),
                                 wh[1], wh[2]),
                          DrawOp("fill", "front", <<>>, front_cover_x, bleed_px,
                                 front_cover_x + page_w_px, bleed_px + page_h_px)>>
    /\ Goto("pc_spine")
    /\ UNCHANGED <<stages, cmds, files, argVars, metaVars, ebook_size, dimVars, regionVars,
                   img, textVars, spine_img>>

\* author line near the bottom of the front cover
DrawAuthor ==
    /\ pc = "pc_author"
    /\ LET author_text == AuthorText(author)
           wh == TextSize(author_text, AuthorFontSize, glyph_aspect)
       IN ops' = Append(ops, DrawOp("text", "author", author_text,
                                    2 * front_cover_x + page_w_px - wh[1],
                                    bleed_px + page_h_px - TruncDiv(page_h_px * 12, 100),
                                    wh[1], wh[2]))
    /\ Goto("pc_spine")
    /\ UNCHANGED <<stages, cmds, files, argVars, metaVars, ebook_size, dimVars, regionVars,
                   img, textVars, spine_img>>

\* Spine text: the block is created spine_px wide and page_h_px high, the
\* text is drawn centred in it, the block is rotated by 90 degrees (the point
\* (x, y) of a w x h block goes to (y, w - x) of an h x w block), the rotated
\* block is cropped to (0, 0, spine_px, page_h_px) and pasted at
\* (spine_x, bleed_px).  x2lo..y2hi are twice the canvas coordinates of the
\* part of the text box that survives clipping and cropping.
SpineBlock(w, h, sw, sh, sx, sy) ==
    LET bx_lo == Max(w - sw, 0)
        bx_hi == Min(w + sw, 2 * w)
        by_lo == Max(h - sh, 0)
        by_hi == Min(h + sh, 2 * h)
        rx_lo == by_lo
        rx_hi == Min(by_hi, 2 * w)
        ry_lo == 2 * w - bx_hi
        ry_hi == Min(2 * w - bx_lo, 2 * h)
    IN [created |-> TRUE, w |-> w, h |-> h, rot_w |-> h, rot_h |-> w,
        pasted |-> TRUE,
        visible |-> (sw > 0 /\ sh > 0 /\ rx_lo < rx_hi /\ ry_lo < ry_hi),
        x2lo |-> 2 * sx + rx_lo, x2hi |-> 2 * sx + rx_hi,
        y2lo |-> 2 * sy + ry_lo, y2hi |-> 2 * sy + ry_hi]

\* for a paste, (x0, y0) is the paste position and (x1, y1) the size pasted
SpineText ==
    /\ pc = "pc_spine"
    /\ IF spine_px < 0 \/ page_h_px < 0
       THEN /\ Raise("ValueError")
            /\ UNCHANGED <<ops, spine_img>>
       ELSE LET spine_text == Strip(title)
                wh == TextSize(spine_text, SpineFontSize, glyph_aspect)
            IN /\ spine_img' = SpineBlock(spine_px, page_h_px, wh[1], wh[2], spine_x, bleed_px)
               /\ ops' = Append(ops, DrawOp("paste", "spine", spine_text, spine_x, bleed_px,
                                            spine_px, page_h_px))
               /\ Goto("pc_save")
    /\ UNCHANGED <<stages, cmds, files, argVars, metaVars, ebook_size, dimVars, regionVars,
                   img, textVars>>

\* save the canvas as temp_print_cover.png, convert it to PDF with ImageMagick,
\* remove the PNG.  Whether an empty canvas can be written is up to the library.
SavePdf ==
    /\ pc = "pc_save"
    /\ UNCHANGED stages
    /\ \/ /\ img.w = 0 \/ img.h = 0
          /\ Raise("SaveError")
          /\ UNCHANGED <<cmds, files>>
       \/ \E rc \in RcSet :
            /\ RunCmd("convert", rc, "epub")
            /\ files' = IF RunCmdRaises(rc, TRUE)
                        THEN files \cup {"temp_print_cover.png"}
                        ELSE (files \cup {"temp_print_cover.png", "cover_print.pdf"})
                                 \ {"temp_print_cover.png"}
    /\ UNCHANGED <<argVars, metaVars, renderVars>>

\* ---------- rest of run_pipeline ----------
\* generate_epub_from_markdown
GenerateEpub ==
    /\ pc = "epub"
    /\ stages' = Append(stages, "epub")
    /\ \E rc \in RcSet :
         /\ RunCmd("pandoc_epub", rc, "validate")
         /\ files' = IF rc = 0 THEN files \cup {"book.epub"} ELSE files
    /\ UNCHANGED <<argVars, metaVars, renderVars>>

\* validate_epub: without the jar a stub report is written; with it epubcheck
\* writes the report (on a failing run it may or may not have written it)
ValidateEpub ==
    /\ pc = "validate"
    /\ stages' = Append(stages, "validate")
    /\ \E jar_exists \in BOOLEAN :
         \/ /\ ~jar_exists
            /\ files' = files \cup {"epubcheck_report.json"}
            /\ Goto("report")
            /\ UNCHANGED cmds
         \/ /\ jar_exists
            /\ \E rc \in RcSet, wrote \in BOOLEAN :
                 /\ RunCmd("epubcheck", rc, "report")
                 /\ files' = IF rc = 0 \/ wrote THEN files \cup {"epubcheck_report.json"}
                             ELSE files
    /\ UNCHANGED <<argVars, metaVars, renderVars>>

\* publish_report.json, then run_pipeline returns and the process exits 0
WriteReport ==
    /\ pc = "report"
    /\ stages' = Append(stages, "report")
    /\ files' = files \cup {"publish_report.json"}
    /\ pc' = "exited"
    /\ exit_status' = 0
    /\ UNCHANGED <<cmds, error, argVars, metaVars, renderVars>>

Next ==
    \/ Convert
    \/ Merge
    \/ LoadMetadata
    \/ GenerateEbookCover
    \/ ComputeDims
    \/ CreateCanvas
    \/ CalcRegions
    \/ FillBack
    \/ FillSpine
    \/ FillFront
    \/ StartTitle
    \/ DrawTitleLine
    \/ DrawAuthor
    \/ SpineText
    \/ SavePdf
    \/ GenerateEpub
    \/ ValidateEpub
    \/ WriteReport

Spec == Init /\ [][Next]_vars

\* ======================= properties =======================
Abs(x) == IF x >= 0 THEN x ELSE -x

\* the cover spec is valid: dpi > 0, page_count >= 0, bleed >= 0, thickness >= 0
ValidSpec ==
    /\ dpi > 0
    /\ page_count >= 0
    /\ bleed_mm >= 0
    /\ thickness_per_page_mm >= 0

\* the canvas exists and the panel regions have been calculated
RegionsDone == Len(ops) >= 1 /\ pc # "pc_regions"

PanelSum == 2 * page_w_px + spine_px + 2 * bleed_px

FillOps == {i \in 1..Len(ops) : ops[i].kind = "fill"}
AllFilled == Cardinality(FillOps) = 3

\* pixel columns of the canvas a fill paints: first and last column
ColLo(op) == Max(op.x0, 0)
ColHi(op) == Min(op.x1, img.w - 1)
ColsOverlap(f, g) ==
    /\ ColLo(f) <= ColHi(f)
    /\ ColLo(g) <= ColHi(g)
    /\ Max(ColLo(f), ColLo(g)) <= Min(ColHi(f), ColHi(g))

\* C1 (as stated): for every valid cover spec the canvas width equals
\* 2*page_w_px + spine_px + 2*bleed_px exactly, i.e.
\* front.x + front.width + bleed_px = canvas.width.
C1_CanvasWidthExact ==
    (ValidSpec /\ RegionsDone) =>
        /\ full_w_px = PanelSum
        /\ front_cover_x + page_w_px + bleed_px = img.w

\* C1 (amended): for every valid cover spec the canvas width is the rounded
\* conversion of the full width in mm and differs from
\* 2*page_w_px + spine_px + 2*bleed_px by at most 3 pixels.
C1_CanvasWidthWithinRounding ==
    (ValidSpec /\ RegionsDone) =>
        /\ img.w = full_w_px
        /\ Abs(full_w_px - PanelSum) <= 3
        /\ Abs(front_cover_x + page_w_px + bleed_px - img.w) <= 3

C1_Witness ==
    /\ ValidSpec /\ RegionsDone
    /\ dpi = DEFAULT_DPI /\ bleed_mm = DEFAULT_BLEED_MM /\ page_count = 120
    /\ full_w_px = PanelSum + 1

\* C2: for every valid cover spec the back, spine and front rectangles are
\* contiguous left to right, no pixel column is painted by two different panel
\* fills, and with page_count = 0 the spine has width 0 and the front panel
\* starts where the back panel ends.
C2_PanelsContiguousDisjoint ==
    (ValidSpec /\ RegionsDone /\ AllFilled) =>
        /\ back_cover_x + page_w_px = spine_x
        /\ spine_x + spine_px = front_cover_x
        /\ \A i, j \in FillOps : i # j => ~ColsOverlap(ops[i], ops[j])
        /\ page_count = 0 => (spine_px = 0 /\ front_cover_x = back_cover_x + page_w_px)

\* C3: given a non-positive dpi, a negative page_count or a non-positive
\* computed canvas dimension, the print cover computation ends in a failure
\* surfaced to the caller and no canvas is created.
InvalidGiven ==
    /\ "print_cover" \in {stages[i] : i \in 1..Len(stages)}
    /\ dpi <= 0 \/ page_count < 0 \/ full_w_px <= 0 \/ full_h_px <= 0

C3_InvalidInputSurfaced ==
    InvalidGiven =>
        /\ ~img.created
        /\ pc = "exited" => (exit_status = 2 /\ error \in {"InvalidInput", "ValueError"})
        /\ pc \in {"pc_canvas", "exited"}

\* C4: with empty title and author text no text is drawn for title, author or
\* spine, so only the background and the three panel fills are painted.
C4_EmptyTextDrawsNothing ==
    (ValidSpec /\ spine_img.pasted /\ Strip(title) = <<>> /\ author = <<>>) =>
        \A i \in 1..Len(ops) : ops[i].kind \in {"text", "paste"} => ops[i].text = <<>>

\* C5: trim 52x74 mm, bleed 3 mm, dpi 300, 120 pages of 0.0025 mm give a
\* canvas of 1303x945 px, a bleed of 35 px, panel widths 614/4/614 (within
\* 1 px), and panels plus bleed margins fit in the canvas width.
DefaultScenario ==
    /\ dpi = 300 /\ bleed_mm = 3 * MmUnit /\ page_count = 120
    /\ thickness_per_page_mm = 25
    /\ width_mm = 52 * MmUnit /\ height_mm = 74 * MmUnit

C5_ConcreteScenario ==
    (DefaultScenario /\ RegionsDone) =>
        /\ spine_mm = 3000 /\ full_w_mm = 1103000 /\ full_h_mm = 800000
        /\ img.w = 1303 /\ img.h = 945
        /\ bleed_px = 35
        /\ Abs(page_w_px - 614) <= 1
        /\ Abs(spine_px - 4) <= 1
        /\ PanelSum <= img.w
        /\ front_cover_x + page_w_px + bleed_px <= img.w

C5_Witness ==
    /\ DefaultScenario /\ RegionsDone /\ AllFilled
    /\ img.w = 1303 /\ spine_px = 4

\* C6: for dpi > 0 and 0 <= a <= b, mm_to_px(a) <= mm_to_px(b) and
\* mm_to_px(0) = 0; every conversion of one render is the same
\* round-to-nearest of its own mm quantity.
MaxGridSteps == 12
GridStep == UnitsPerInch \div 200
MmGrid == {k * GridStep : k \in 0..MaxGridSteps}

\* (mm, px) of every conversion the render has made
Conversions ==
    {<<full_w_mm, full_w_px>>, <<full_h_mm, full_h_px>>, <<bleed_mm, bleed_px>>,
     <<width_mm, page_w_px>>, <<height_mm, page_h_px>>, <<spine_mm, spine_px>>}

Nearest(mm, px) ==
    LET e == 2 * Abs(px * UnitsPerInch - mm * dpi)
    IN e < UnitsPerInch \/ (e = UnitsPerInch /\ px % 2 = 0)

C6_MmToPxMonotone ==
    (dpi > 0 /\ RegionsDone) =>
        /\ \A c, d \in Conversions :
             (0 <= c[1] /\ c[1] <= d[1]) => c[2] <= d[2]
        /\ \A c \in Conversions : (c[1] = 0 => c[2] = 0) /\ Nearest(c[1], c[2])
        /\ pc = "pc_fill_back" =>
             /\ mm_to_px(0, dpi) = 0
             /\ \A a, b \in MmGrid : a <= b => mm_to_px(a, dpi) <= mm_to_px(b, dpi)

C6_Witness ==
    /\ dpi > 0 /\ pc = "pc_fill_back" /\ RegionsDone
    /\ bleed_mm = 0 /\ bleed_px = 0
    /\ spine_mm > 0 /\ spine_px > 0 /\ spine_px < page_w_px

\* C7: after a run in which every stage succeeds the output directory holds
\* book.epub, cover_ebook.jpg, cover_print.pdf and validation_report.json and
\* no temp_print_cover.png.
C7_PromisedOutputs ==
    (ValidSpec /\ pc = "exited" /\ exit_status = 0) =>
        /\ {"book.epub", "cover_ebook.jpg", "cover_print.pdf", "validation_report.json"}
               \subseteq files
        /\ "temp_print_cover.png" \notin files

\* C8: draw operations occur in the order background, back fill, spine fill,
\* front fill, title lines, author, spine text; no fill or background is
\* painted after a text.
Rank(op) ==
    CASE op.kind = "background" -> 0
      [] op.kind = "fill" /\ op.name = "back" -> 1
      [] op.kind = "fill" /\ op.name = "spine" -> 2
      [] op.kind = "fill" /\ op.name = "front" -> 3
      [] op.kind = "text" /\ op.name = "title" -> 4
      [] op.kind = "text" /\ op.name = "author" -> 5
      [] op.kind = "paste" -> 6
      [] OTHER -> 7

C8_DrawOrder ==
    /\ Len(ops) >= 1 => Rank(ops[1]) = 0
    /\ \A i, j \in 1..Len(ops) :
         i < j =>
            /\ Rank(ops[i]) <= Rank(ops[j])
            /\ Rank(ops[i]) = Rank(ops[j]) => Rank(ops[i]) = 4
            /\ ops[i].kind \in {"text", "paste"} => ops[j].kind \in {"text", "paste"}
    /\ \A j \in 1..Len(ops) :
         ops[j].kind \in {"text", "paste"} => (j > 4 /\ \A k \in 1..4 : Rank(ops[k]) = k - 1)

C8_Witness ==
    /\ spine_img.pasted
    /\ Len(title_lines) >= 2
    /\ Len(ops) >= 8
    /\ ops[Len(ops)].kind = "paste"

\* C9: for a spine of width spine_px > 0 the spine title is composed in a
\* block page_h_px wide and spine_px high, rotated by 90 degrees, and pasted
\* so that the text box is centred in the spine panel (within 1 px on both
\* axes) and lies inside [spine_x, spine_x+spine_px] x [bleed_px, bleed_px+page_h_px].
C9_SpineTextCentred ==
    (ValidSpec /\ spine_px > 0 /\ spine_img.pasted) =>
        /\ spine_img.w = page_h_px /\ spine_img.h = spine_px
        /\ spine_img.rot_w = spine_px /\ spine_img.rot_h = page_h_px
        /\ Strip(title) # <<>> =>
             /\ spine_img.visible
             /\ Abs(spine_img.x2lo + spine_img.x2hi - 2 * (2 * spine_x + spine_px)) <= 4
             /\ Abs(spine_img.y2lo + spine_img.y2hi - 2 * (2 * bleed_px + page_h_px)) <= 4
             /\ 2 * spine_x <= spine_img.x2lo /\ spine_img.x2hi <= 2 * (spine_x + spine_px)
             /\ 2 * bleed_px <= spine_img.y2lo /\ spine_img.y2hi <= 2 * (bleed_px + page_h_px)

\* C10: every stage runs at most once and in the fixed order; once an
\* external command returns a non-zero status no later stage runs, nothing is
\* retried, publish_report.json is not written and the exit status is 2.
IsPrefix(s, t) == Len(s) <= Len(t) /\ \A i \in 1..Len(s) : s[i] = t[i]

C10_StagesOnceNoRetry ==
    /\ IsPrefix(stages, StageOrder)
    /\ \A i, j \in 1..Len(cmds) : i # j => cmds[i].cmd # cmds[j].cmd
    /\ \A i \in 1..Len(cmds) :
         cmds[i].rc # 0 =>
            /\ i = Len(cmds)
            /\ Len(stages) = cmds[i].at
            /\ pc = "exited" /\ exit_status = 2
            /\ "publish_report.json" \notin files

C10_Witness ==
    /\ Len(cmds) >= 1
    /\ cmds[Len(cmds)].rc # 0 /\ cmds[Len(cmds)].cmd = "pandoc_epub"
    /\ stages = SubSeq(StageOrder, 1, 5)
    /\ exit_status = 2

====
